---- MODULE Spec2Model ----
(***************************************************************************)
(* Model of the relational signal core of Organism-0:                      *)
(*   Signals/Event_bus.py      EventBus (subscribe / unsubscribe / publish)*)
(*   Signals/State_machine.py  RelationalStateMachine (the on_* handlers)  *)
(*                                                                         *)
(* Floats are modelled as integers on a common scale: the handlers only    *)
(* compare and subtract them.                                              *)
(***************************************************************************)
EXTENDS Integers, Sequences, FiniteSets, TLC

VARIABLES
    subscribers,   \* EventBus._subscribers: insertion-ordered dict, as a
                   \* sequence of [token, callback, event_types]
    next_token,    \* EventBus._next_token
    thresholds,    \* RelationalStateMachine.thresholds
    last,          \* the last call: its name, arguments, locals and result
    published,     \* events handed to EventBus.publish by the last call
    calls,         \* callback invocations made during the last call, in order
    error,         \* exception that left the last call ("none" if it returned)
    now,           \* the wall clock that now_ts() reads
    issued,        \* history: every subscribe call, with the token returned
    removed,       \* history: tokens unsubscribed while they were registered
    ledger         \* the list a ledger channel appends its entries to

vars == <<subscribers, next_token, thresholds, last, published, calls, error,
          now, issued, removed, ledger>>

----------------------------------------------------------------------------
\* Bounds of the model

\* subscribe calls explored on one bus under Spec
MaxToken == 3
\* subscribe calls explored under CoreSpec
CoreMaxToken == 1
\* surprise values are 0..MaxEps
MaxEps == 4
\* safety values are 0..MaxVital
MaxVital == 2
\* regulation values are 0..MaxRegulation
MaxRegulation == 1
\* the wall clock runs over 0..MaxTime
MaxTime == 1
\* gate costs are -1..MaxCost
MaxCost == 3
\* subscribe calls made by callers under ReentrantSpec
ReentrantMaxToken == 2
\* subscribe calls explored under ChannelSpec
ChannelMaxToken == 2
\* publish calls are explored while the ledger holds fewer entries than this
MaxLedger == 2

----------------------------------------------------------------------------
\* Event_bus.py: types

RelationalEventType ==
    {"SURPRISE_SPIKE", "GROUNDING_SHIFT", "GATE_DRAG", "POCKET_SPAWN",
     "POCKET_MERGE", "POCKET_ARCHIVE", "SANCTUARY_GUARD"}

RelationalEvent(type, timestamp, ctx_id, payload) ==
    [type |-> type, timestamp |-> timestamp, ctx_id |-> ctx_id,
     payload |-> payload]

\* Subscriber callbacks the callers register: one that returns, one that raises.
Subscriber == {"quiet", "faulty"}

Raises(callback) == callback = "faulty"

\* Handlers of Integration_hooks.py: the ledger handler, and a lattice handler
\* whose apply_lattice_update writes to the event it is handed.
ChannelCallbacks == {"quiet", "ledger", "lattice_writer"}

\* Callbacks that call back into the bus that invoked them: one subscribes a
\* further handler, one unsubscribes itself, one answers a surprise spike by
\* publishing a sanctuary-guard event.
ReentrantCallbacks ==
    {"quiet", "subscribes", "unsubscribes_self", "republishes"}

\* event.ctx_id = "rewritten"; event.payload["seen"] = True
Written(event) ==
    [event EXCEPT !.ctx_id = "rewritten",
                  !.payload = [k \in DOMAIN event.payload \cup {"seen"} |->
                                 IF k = "seen" THEN TRUE
                                 ELSE event.payload[k]]]

\* The event object as a callback leaves it: RelationalEvent is not frozen
\* and its payload is a dict.
After(callback, event) ==
    IF callback = "lattice_writer" THEN Written(event) ELSE event

\* The dict the ledger handler appends; "payload" is the event's own dict.
LedgerEntry(event) ==
    [ts |-> event.timestamp, type |-> event.type, ctx_id |-> event.ctx_id,
     payload |-> event.payload]

Kept(callback, event) ==
    IF callback = "ledger" THEN <<LedgerEntry(event)>> ELSE <<>>

\* The Optional[List[RelationalEventType]] argument of subscribe.
NoneArg == [isNone |-> TRUE, list |-> <<>>]

ListArg(l) == [isNone |-> FALSE, list |-> l]

EventTypesArgs ==
    {NoneArg, ListArg(<<>>), ListArg(<<"SURPRISE_SPIKE">>)}

\* Python truthiness of the argument: None and the empty list are falsy.
Truthy(event_types) == ~event_types.isNone /\ Len(event_types.list) > 0

\* set(event_types) if event_types else None
StoredFilter(event_types) ==
    IF Truthy(event_types)
    THEN [isNone |-> FALSE,
          kinds |-> {event_types.list[i] : i \in DOMAIN event_types.list}]
    ELSE [isNone |-> TRUE, kinds |-> {}]

\* Events callers publish directly on the bus.
SampleEvents ==
    {RelationalEvent("SURPRISE_SPIKE", 0, "ctx",
                     [epsilon |-> 2, prev_epsilon |-> 0, level |-> "tense"]),
     RelationalEvent("SANCTUARY_GUARD", 0, "ctx", [state |-> "active"])}

----------------------------------------------------------------------------
\* The insertion-ordered dict EventBus._subscribers

Keys(d) == {d[i].token : i \in DOMAIN d}

\* d[token] = value: a new key is appended, an existing key keeps its place.
DictSet(d, token, callback, filter) ==
    LET entry == [token |-> token, callback |-> callback,
                  event_types |-> filter]
    IN IF token \in Keys(d)
       THEN [i \in DOMAIN d |-> IF d[i].token = token THEN entry ELSE d[i]]
       ELSE Append(d, entry)

\* a wrong pop: removes by position instead of by key
DictPopByIndex(d, token) ==
    [i \in 1..(Len(d) - (IF token \in DOMAIN d THEN 1 ELSE 0)) |->
        IF i < token THEN d[i] ELSE d[i + 1]]

\* d.pop(token, None)
RECURSIVE DictPop(_, _)
DictPop(d, token) ==
    IF d = <<>> THEN <<>>
    ELSE IF Head(d).token = token THEN DictPop(Tail(d), token)
         ELSE <<Head(d)>> \o DictPop(Tail(d), token)

----------------------------------------------------------------------------
\* EventBus

Allowed(sub, event) ==
    sub.event_types.isNone \/ event.type \in sub.event_types.kinds

Invocation(sub, event) ==
    [token |-> sub.token, callback |-> sub.callback, event |-> event]

\* The bus object: its two fields, with the history kept about them.
Bus ==
    [subscribers |-> subscribers, next_token |-> next_token,
     issued |-> issued, removed |-> removed]

\* bus.subscribe(callback, event_types), called from inside a callback
subscribe(bus, callback, event_types) ==
    LET token == bus.next_token
    IN [bus EXCEPT
          !.next_token = @ + 1,
          !.subscribers = DictSet(@, token, callback,
                                  StoredFilter(event_types)),
          !.issued = Append(@, [token |-> token, callback |-> callback,
                                event_types |-> event_types])]

\* bus.unsubscribe(token), called from inside a callback
unsubscribe(bus, token) ==
    [bus EXCEPT
       !.subscribers = DictPop(@, token),
       !.removed = IF token \in Keys(bus.subscribers)
                   THEN @ \cup {token} ELSE @]

\* The bus as the callback of subscription sub leaves it.
Reenters(sub, bus) ==
    CASE sub.callback = "subscribes" -> subscribe(bus, "quiet", NoneArg)
      [] sub.callback = "unsubscribes_self" -> unsubscribe(bus, sub.token)
      [] OTHER -> bus

\* The events the callback hands to bus.publish while it handles event.
Republished(callback, event) ==
    IF callback = "republishes" /\ event.type = "SURPRISE_SPIKE"
    THEN <<RelationalEvent("SANCTUARY_GUARD", event.timestamp, event.ctx_id,
                           [state |-> "active"])>>
    ELSE <<>>

\* A publish call that was not made.
NoFanOut(bus, event) ==
    [calls |-> <<>>, error |-> "none", event |-> event, kept |-> <<>>,
     bus |-> bus, started |-> <<>>]

\* The loop of publish from position i over the one event object, on the
\* values iterator of the dict, which held `used` entries when the loop
\* began: the invocations made (each with the event as that callback received
\* it, those of nested publish calls in their place), the exception that ended
\* it, if any, the event object after the loop, the ledger entries appended
\* during it, the bus after it and the events of the nested publish calls.
\* The iterator raises RuntimeError when it is advanced after the dict
\* changed size. Nothing catches an exception. A ledger entry holds the
\* payload dict of the event object, so it shows it as the loop left it.
RECURSIVE FanOut(_, _, _, _)
FanOut(bus, used, i, event) ==
    IF Len(bus.subscribers) # used
    THEN [NoFanOut(bus, event) EXCEPT !.error = "RuntimeError"]
    ELSE IF i > used THEN NoFanOut(bus, event)
    ELSE LET sub == bus.subscribers[i]
             nested == Republished(sub.callback, event)
             inner == IF nested = <<>> THEN NoFanOut(bus, nested)
                      ELSE FanOut(bus, Len(bus.subscribers), 1, nested[1])
             rest == FanOut(Reenters(sub, inner.bus), used, i + 1,
                            After(sub.callback, event))
             shown == [event EXCEPT !.payload = rest.event.payload]
         IN IF ~Allowed(sub, event) THEN FanOut(bus, used, i + 1, event)
            ELSE IF Raises(sub.callback)
            THEN [NoFanOut(bus, event) EXCEPT
                    !.calls = <<Invocation(sub, event)>>,
                    !.error = "callback"]
            ELSE IF inner.error # "none"
            THEN [calls |-> <<Invocation(sub, event)>> \o inner.calls,
                  error |-> inner.error,
                  event |-> event,
                  kept |-> inner.kept,
                  bus |-> inner.bus,
                  started |-> nested \o inner.started]
            ELSE [calls |-> <<Invocation(sub, event)>> \o inner.calls
                               \o rest.calls,
                  error |-> rest.error,
                  event |-> rest.event,
                  kept |-> Kept(sub.callback, shown) \o inner.kept
                              \o rest.kept,
                  bus |-> rest.bus,
                  started |-> nested \o inner.started \o rest.started]

\* The ledger after a publish call.
LedgerAfter(r) == ledger \o r.kept

\* The bus after a publish call.
BusAfter(r) ==
    /\ subscribers' = r.bus.subscribers
    /\ next_token' = r.bus.next_token
    /\ issued' = r.bus.issued
    /\ removed' = r.bus.removed

\* a token derived from the size of the registry
NewTokenBySize == Len(subscribers) + 1

\* token = self._next_token
NewToken == next_token

Subscribe(callback, event_types) ==
    LET token == NewToken
    IN /\ next_token' = next_token + 1
       /\ subscribers' = DictSet(subscribers, token, callback,
                                 StoredFilter(event_types))
       /\ last' = [op |-> "subscribe", callback |-> callback,
                   event_types |-> event_types, token |-> token]
       /\ issued' = Append(issued, [token |-> token, callback |-> callback,
                                    event_types |-> event_types])
       /\ published' = <<>>
       /\ calls' = <<>>
       /\ error' = "none"
       /\ UNCHANGED <<thresholds, now, removed, ledger>>

\* a pop without its default: an unknown key raises
UnsubscribeStrict(token) ==
    /\ subscribers' = DictPop(subscribers, token)
    /\ last' = [op |-> "unsubscribe", token |-> token,
                found |-> token \in Keys(subscribers)]
    /\ removed' = IF token \in Keys(subscribers)
                  THEN removed \cup {token} ELSE removed
    /\ published' = <<>>
    /\ calls' = <<>>
    /\ error' = IF token \in Keys(subscribers) THEN "none" ELSE "KeyError"
    /\ UNCHANGED <<next_token, thresholds, now, issued, ledger>>

Unsubscribe(token) ==
    /\ subscribers' = DictPop(subscribers, token)
    /\ last' = [op |-> "unsubscribe", token |-> token,
                found |-> token \in Keys(subscribers)]
    /\ removed' = IF token \in Keys(subscribers)
                  THEN removed \cup {token} ELSE removed
    /\ published' = <<>>
    /\ calls' = <<>>
    /\ error' = "none"
    /\ UNCHANGED <<next_token, thresholds, now, issued, ledger>>

Publish(event) ==
    \E r \in {FanOut(Bus, Len(subscribers), 1, event)} :
       /\ last' = [op |-> "publish", event |-> event]
       /\ published' = <<event>> \o r.started
       /\ calls' = r.calls
       /\ error' = r.error
       /\ ledger' = LedgerAfter(r)
       /\ BusAfter(r)
       /\ UNCHANGED <<thresholds, now>>

----------------------------------------------------------------------------
\* State_machine.py: thresholds

Thresholds(curious, tense, destabilized, light, moderate, min_delta) ==
    [surprise |-> [curious |-> curious, tense |-> tense,
                   destabilized |-> destabilized],
     drag_cost |-> [light |-> light, moderate |-> moderate],
     grounding |-> [min_delta |-> min_delta]]

\* Threshold files the core is constructed from.
ThresholdConfigs ==
    {Thresholds(1, 2, 3, 1, 2, 1), Thresholds(1, 3, 4, 2, 3, 2)}

----------------------------------------------------------------------------
\* RelationalStateMachine

ContextIds == {"demo_session", "other_session"}

\* the context the vitals engine reports for
VitalsContextIds == {"demo_session"}

\* now_ts(): the wall clock, read when an event is constructed
now_ts == now

\* time passing between two calls
Tick ==
    /\ now' = now + 1
    /\ UNCHANGED <<subscribers, next_token, thresholds, last, published,
                   calls, error, issued, removed, ledger>>

EpsilonValues == 0..MaxEps

SafetyValues == 0..MaxVital

RegulationValues == 0..MaxRegulation

Abs(x) == IF x < 0 THEN 0 - x ELSE x

\* a classifier whose bounds belong to the lower zone
bandClosed(bands, e) ==
    IF e <= bands.curious THEN "none"
    ELSE IF e <= bands.tense THEN "curious"
    ELSE IF e <= bands.destabilized THEN "tense"
    ELSE "destabilized"

\* on_epsilon_update.band
band(bands, e) ==
    IF e < bands.curious THEN "none"
    ELSE IF e < bands.tense THEN "curious"
    ELSE IF e < bands.destabilized THEN "tense"
    ELSE "destabilized"

\* a guard that forgets the "none" zone
SurpriseSuppressedLoose(prev_band, new_band) == new_band = prev_band

\* if new_band == "none" or new_band == prev_band: return
SurpriseSuppressed(prev_band, new_band) ==
    new_band = "none" \/ new_band = prev_band

\* self.bus.publish(event), as the last statement of a handler
BusPublish(event) ==
    \E r \in {FanOut(Bus, Len(subscribers), 1, event)} :
       /\ published' = <<event>> \o r.started
       /\ calls' = r.calls
       /\ error' = r.error
       /\ ledger' = LedgerAfter(r)
       /\ BusAfter(r)

\* a handler returning before it constructs an event
NoPublish ==
    /\ published' = <<>>
    /\ calls' = <<>>
    /\ error' = "none"
    /\ UNCHANGED <<subscribers, next_token, issued, removed, ledger>>

\* a core that remembers the zone of its last call instead of classifying
\* prev_epsilon
OnEpsilonUpdateRemembering(ctx_id, epsilon, prev_epsilon) ==
    LET bands == thresholds.surprise
        prev_band == IF "new_band" \in DOMAIN last THEN last.new_band
                     ELSE band(bands, prev_epsilon)
        new_band == band(bands, epsilon)
        event == RelationalEvent("SURPRISE_SPIKE", now_ts, ctx_id,
                                 [epsilon |-> epsilon,
                                  prev_epsilon |-> prev_epsilon,
                                  level |-> new_band])
    IN /\ last' = [op |-> "on_epsilon_update", ctx_id |-> ctx_id,
                   epsilon |-> epsilon, prev_epsilon |-> prev_epsilon,
                   prev_band |-> prev_band, new_band |-> new_band]
       /\ IF SurpriseSuppressed(prev_band, new_band)
          THEN NoPublish
          ELSE BusPublish(event)
       /\ UNCHANGED <<thresholds, now>>

OnEpsilonUpdate(ctx_id, epsilon, prev_epsilon) ==
    LET bands == thresholds.surprise
        prev_band == band(bands, prev_epsilon)
        new_band == band(bands, epsilon)
        level == new_band
        event == RelationalEvent("SURPRISE_SPIKE", now_ts, ctx_id,
                                 [epsilon |-> epsilon,
                                  prev_epsilon |-> prev_epsilon,
                                  level |-> level])
    IN /\ last' = [op |-> "on_epsilon_update", ctx_id |-> ctx_id,
                   epsilon |-> epsilon, prev_epsilon |-> prev_epsilon,
                   prev_band |-> prev_band, new_band |-> new_band]
       /\ IF SurpriseSuppressed(prev_band, new_band)
          THEN NoPublish
          ELSE BusPublish(event)
       /\ UNCHANGED <<thresholds, now>>

\* a guard that also suppresses a change of exactly min_delta
GroundingSuppressedInclusive(ds, dr, min_delta) ==
    Abs(ds) <= min_delta /\ Abs(dr) <= min_delta

\* if abs(ds) < min_delta and abs(dr) < min_delta: return
GroundingSuppressed(ds, dr, min_delta) ==
    Abs(ds) < min_delta /\ Abs(dr) < min_delta

\* a tie-break that resolves a zero sum upward
DirectionTieUp(ds, dr) == IF (ds + dr) >= 0 THEN "up" ELSE "down"

\* direction = "up" if (ds + dr) > 0 else "down"
Direction(ds, dr) == IF (ds + dr) > 0 THEN "up" ELSE "down"

OnGroundingUpdate(ctx_id, prev_safety, new_safety, prev_regulation, new_regulation) ==
    LET min_delta == thresholds.grounding.min_delta
        ds == new_safety - prev_safety
        dr == new_regulation - prev_regulation
        direction == Direction(ds, dr)
        event == RelationalEvent("GROUNDING_SHIFT", now_ts, ctx_id,
                                 [prev_safety |-> prev_safety,
                                  new_safety |-> new_safety,
                                  prev_regulation |-> prev_regulation,
                                  new_regulation |-> new_regulation,
                                  delta_safety |-> ds,
                                  delta_regulation |-> dr,
                                  direction |-> direction])
    IN /\ last' = [op |-> "on_grounding_update", ctx_id |-> ctx_id,
                   prev_safety |-> prev_safety, new_safety |-> new_safety,
                   prev_regulation |-> prev_regulation,
                   new_regulation |-> new_regulation]
       /\ IF GroundingSuppressed(ds, dr, min_delta)
          THEN NoPublish
          ELSE BusPublish(event)
       /\ UNCHANGED <<thresholds, now>>

\* on_gate_drag arguments: costs below zero and above every band included,
\* energy_class inside and outside the documented classes
CostValues == (0 - 1)..MaxCost

GateIds == {"truth_vs_keeping_you"}

EnergyClasses == {"macro", "unlisted"}

\* a classifier whose bounds belong to the lower zone
GateLevelClosed(bands, cost) ==
    IF cost <= bands.light THEN "light"
    ELSE IF cost <= bands.moderate THEN "moderate"
    ELSE "heavy"

\* if cost < bands.light: ... elif cost < bands.moderate: ... else: ...
GateLevel(bands, cost) ==
    IF cost < bands.light THEN "light"
    ELSE IF cost < bands.moderate THEN "moderate"
    ELSE "heavy"

OnGateDrag(ctx_id, gate_id, cost, energy_class) ==
    LET bands == thresholds.drag_cost
        level == GateLevel(bands, cost)
        event == RelationalEvent("GATE_DRAG", now_ts, ctx_id,
                                 [gate_id |-> gate_id, cost |-> cost,
                                  energy_class |-> energy_class,
                                  level |-> level])
    IN /\ last' = [op |-> "on_gate_drag", ctx_id |-> ctx_id,
                   gate_id |-> gate_id, cost |-> cost,
                   energy_class |-> energy_class]
       /\ BusPublish(event)
       /\ UNCHANGED <<thresholds, now>>

\* pocket room arguments
RoomIds == {"room:truth_tension"}

Reasons == {"ethical_conflict"}

OnPocketSpawn(ctx_id, room_id, reason, depth) ==
    LET event == RelationalEvent("POCKET_SPAWN", now_ts, ctx_id,
                                 [room_id |-> room_id, reason |-> reason,
                                  depth |-> depth])
    IN /\ last' = [op |-> "on_pocket_spawn", ctx_id |-> ctx_id,
                   room_id |-> room_id, reason |-> reason, depth |-> depth]
       /\ BusPublish(event)
       /\ UNCHANGED <<thresholds, now>>

OnPocketMerge(ctx_id, room_id, delta_safety, delta_consent, delta_regulation) ==
    LET event == RelationalEvent("POCKET_MERGE", now_ts, ctx_id,
                                 [room_id |-> room_id,
                                  delta_safety |-> delta_safety,
                                  delta_consent |-> delta_consent,
                                  delta_regulation |-> delta_regulation])
    IN /\ last' = [op |-> "on_pocket_merge", ctx_id |-> ctx_id,
                   room_id |-> room_id, delta_safety |-> delta_safety,
                   delta_consent |-> delta_consent,
                   delta_regulation |-> delta_regulation]
       /\ BusPublish(event)
       /\ UNCHANGED <<thresholds, now>>

OnPocketArchive(ctx_id, room_id, reason) ==
    LET event == RelationalEvent("POCKET_ARCHIVE", now_ts, ctx_id,
                                 [room_id |-> room_id, reason |-> reason])
    IN /\ last' = [op |-> "on_pocket_archive", ctx_id |-> ctx_id,
                   room_id |-> room_id, reason |-> reason]
       /\ BusPublish(event)
       /\ UNCHANGED <<thresholds, now>>

\* on_sanctuary_guard states: the two documented ones and another string
GuardStates == {"active", "released", "unlisted"}

\* a handler that validates its state argument
OnSanctuaryGuardChecked(ctx_id, state) ==
    LET event == RelationalEvent("SANCTUARY_GUARD", now_ts, ctx_id,
                                 [state |-> state])
    IN /\ last' = [op |-> "on_sanctuary_guard", ctx_id |-> ctx_id,
                   state |-> state]
       /\ IF state \in {"active", "released"}
          THEN BusPublish(event)
          ELSE /\ published' = <<>>
               /\ calls' = <<>>
               /\ error' = "ValueError"
               /\ UNCHANGED <<subscribers, next_token, issued, removed,
                              ledger>>
       /\ UNCHANGED <<thresholds, now>>

OnSanctuaryGuard(ctx_id, state) ==
    LET event == RelationalEvent("SANCTUARY_GUARD", now_ts, ctx_id,
                                 [state |-> state])
    IN /\ last' = [op |-> "on_sanctuary_guard", ctx_id |-> ctx_id,
                   state |-> state]
       /\ BusPublish(event)
       /\ UNCHANGED <<thresholds, now>>

----------------------------------------------------------------------------
\* Initial state: EventBus() and RelationalStateMachine(thresholds, bus)

Init ==
    /\ subscribers = <<>>
    /\ next_token = 1
    /\ thresholds \in ThresholdConfigs
    /\ last = [op |-> "init"]
    /\ published = <<>>
    /\ calls = <<>>
    /\ error = "none"
    /\ now = 0
    /\ issued = <<>>
    /\ removed = {}
    /\ ledger = <<>>

Next ==
    \/ \E callback \in Subscriber, event_types \in EventTypesArgs :
          next_token <= MaxToken /\ Subscribe(callback, event_types)
    \/ \E token \in 1..(MaxToken + 1) : Unsubscribe(token)
    \/ \E event \in SampleEvents : Publish(event)

Spec == Init /\ [][Next]_vars

\* A bus the channels of Integration_hooks.py are attached to (no filter),
\* with callers publishing on it.
ChannelNext ==
    \/ \E callback \in ChannelCallbacks :
          next_token <= ChannelMaxToken /\ Subscribe(callback, NoneArg)
    \/ \E token \in 1..ChannelMaxToken : Unsubscribe(token)
    \/ \E event \in SampleEvents : Len(ledger) < MaxLedger /\ Publish(event)

ChannelSpec == Init /\ [][ChannelNext]_vars

\* A bus whose callbacks call subscribe, unsubscribe and publish on it.
ReentrantNext ==
    \/ \E callback \in ReentrantCallbacks,
          event_types \in {NoneArg, ListArg(<<"SANCTUARY_GUARD">>)} :
          next_token <= ReentrantMaxToken /\ Subscribe(callback, event_types)
    \/ \E token \in 1..ReentrantMaxToken : Unsubscribe(token)
    \/ \E event \in SampleEvents :
          next_token <= ReentrantMaxToken + 1 /\ Publish(event)

ReentrantSpec == Init /\ [][ReentrantNext]_vars

\* The decision core driving a bus that channels subscribe to the way the
\* attach_*_channel hooks do (bus.subscribe(_handler), no filter).
CoreNext ==
    \/ \E callback \in Subscriber :
          next_token <= CoreMaxToken /\ Subscribe(callback, NoneArg)
    \/ now < MaxTime /\ Tick
    \/ \E ctx_id \in ContextIds, epsilon \in EpsilonValues,
          prev_epsilon \in EpsilonValues :
          OnEpsilonUpdate(ctx_id, epsilon, prev_epsilon)
    \/ \E ctx_id \in VitalsContextIds, prev_safety \in SafetyValues,
          new_safety \in SafetyValues, prev_regulation \in RegulationValues,
          new_regulation \in RegulationValues :
          OnGroundingUpdate(ctx_id, prev_safety, new_safety,
                            prev_regulation, new_regulation)
    \/ \E ctx_id \in ContextIds, gate_id \in GateIds, cost \in CostValues,
          energy_class \in EnergyClasses :
          OnGateDrag(ctx_id, gate_id, cost, energy_class)
    \/ \E ctx_id \in ContextIds, room_id \in RoomIds, reason \in Reasons :
          OnPocketSpawn(ctx_id, room_id, reason, 1)
    \/ \E ctx_id \in ContextIds, room_id \in RoomIds :
          OnPocketMerge(ctx_id, room_id, 1, 1, 0)
    \/ \E ctx_id \in ContextIds, room_id \in RoomIds, reason \in Reasons :
          OnPocketArchive(ctx_id, room_id, reason)
    \/ \E ctx_id \in ContextIds, state \in GuardStates :
          OnSanctuaryGuard(ctx_id, state)

CoreSpec == Init /\ [][CoreNext]_vars

----------------------------------------------------------------------------
\* Loading the thresholds: Thresholds.from_json, then the construction of the
\* core (Demo_loop.main)

\* No core constructed yet.
NoThresholds == [unset |-> TRUE]

Constructed == "surprise" \in DOMAIN thresholds

\* Parsed threshold documents: ascending bands, bands out of order, and a
\* document without its grounding group.
ThresholdDocs ==
    {[surprise |-> [curious |-> 1, tense |-> 2, destabilized |-> 3],
      drag_cost |-> [light |-> 1, moderate |-> 2],
      grounding |-> [min_delta |-> 1]],
     [surprise |-> [curious |-> 2, tense |-> 1, destabilized |-> 3],
      drag_cost |-> [light |-> 2, moderate |-> 1],
      grounding |-> [min_delta |-> 1]],
     [surprise |-> [curious |-> 1, tense |-> 2, destabilized |-> 3],
      drag_cost |-> [light |-> 1, moderate |-> 2]]}

\* data["surprise"], data["drag_cost"], data["grounding"]: a missing group
\* raises KeyError
HasGroups(data) == {"surprise", "drag_cost", "grounding"} \subseteq DOMAIN data

\* Thresholds.from_json on a document with its three groups: the fields are
\* copied, their order is not examined
from_json(data) ==
    Thresholds(data.surprise.curious, data.surprise.tense,
               data.surprise.destabilized, data.drag_cost.light,
               data.drag_cost.moderate, data.grounding.min_delta)

\* thresholds = Thresholds.from_json(path);
\* sm = RelationalStateMachine(thresholds, global_event_bus)
LoadThresholds(data) ==
    /\ ~Constructed
    /\ last' = [op |-> "from_json", data |-> data]
    /\ IF HasGroups(data)
       THEN /\ thresholds' = from_json(data)
            /\ error' = "none"
       ELSE /\ thresholds' = thresholds
            /\ error' = "KeyError"
    /\ published' = <<>>
    /\ calls' = <<>>
    /\ UNCHANGED <<subscribers, next_token, now, issued, removed, ledger>>

LoadInit ==
    /\ subscribers = <<>>
    /\ next_token = 1
    /\ thresholds = NoThresholds
    /\ last = [op |-> "init"]
    /\ published = <<>>
    /\ calls = <<>>
    /\ error = "none"
    /\ now = 0
    /\ issued = <<>>
    /\ removed = {}
    /\ ledger = <<>>

LoadNext ==
    \/ \E data \in ThresholdDocs : LoadThresholds(data)
    \/ \E callback \in Subscriber :
          next_token <= CoreMaxToken /\ Subscribe(callback, NoneArg)
    \/ \E ctx_id \in ContextIds, epsilon \in EpsilonValues,
          prev_epsilon \in EpsilonValues :
          Constructed /\ OnEpsilonUpdate(ctx_id, epsilon, prev_epsilon)
    \/ \E ctx_id \in ContextIds, gate_id \in GateIds, cost \in CostValues,
          energy_class \in EnergyClasses :
          Constructed /\ OnGateDrag(ctx_id, gate_id, cost, energy_class)

LoadSpec == LoadInit /\ [][LoadNext]_vars

----------------------------------------------------------------------------
\* avatar_micro.py: AvatarGesturePlan and AvatarMicroEngine

\* The fields of AvatarGesturePlan, in declaration order.
PlanFields ==
    <<"freeze_ms", "inhale", "gaze_flicker", "sternum_lift",
      "shoulders_release", "shoulders_close", "weight_shift_back",
      "head_tilt_down", "shield_up">>

PlanFieldSet == {PlanFields[i] : i \in DOMAIN PlanFields}

\* AvatarGesturePlan(freeze_ms=..., <flag>=True, ...): the fields not given
\* keep their defaults, 0 and False.
AvatarGesturePlan(freeze_ms, flags) ==
    [f \in PlanFieldSet |-> IF f = "freeze_ms" THEN freeze_ms ELSE f \in flags]

\* Optional[AvatarGesturePlan]
NonePlan == [isNone |-> TRUE]

SomePlan(plan) == [isNone |-> FALSE, plan |-> plan]

\* The None that dict.get returns for a missing key; no payload of the model
\* holds this string.
PyNone == "<None>"

\* p.get(key)
Get(p, key) == IF key \in DOMAIN p THEN p[key] ELSE PyNone

\* the SURPRISE_SPIKE branch: the last return is reached by every level that
\* is neither "curious" nor "tense"
SurprisePlan(level) ==
    IF level = "curious"
    THEN SomePlan(AvatarGesturePlan(80, {"inhale", "gaze_flicker"}))
    ELSE IF level = "tense"
    THEN SomePlan(AvatarGesturePlan(120, {"inhale", "gaze_flicker",
                                          "shoulders_close",
                                          "weight_shift_back"}))
    ELSE SomePlan(AvatarGesturePlan(180, {"inhale", "gaze_flicker",
                                          "shoulders_close",
                                          "weight_shift_back",
                                          "head_tilt_down"}))

\* the GROUNDING_SHIFT branch
GroundingPlan(direction) ==
    IF direction = "up"
    THEN SomePlan(AvatarGesturePlan(0, {"sternum_lift", "shoulders_release"}))
    ELSE SomePlan(AvatarGesturePlan(0, {"shoulders_close", "head_tilt_down"}))

\* a branch that ends in an else instead of a second test
GateDragPlanElse(level) ==
    IF level = "heavy"
    THEN SomePlan(AvatarGesturePlan(0, {"weight_shift_back",
                                        "shoulders_close"}))
    ELSE SomePlan(AvatarGesturePlan(0, {"weight_shift_back"}))

\* the GATE_DRAG branch: with no level matched, control falls through the
\* remaining type tests to the final return None
GateDragPlan(level) ==
    IF level = "moderate"
    THEN SomePlan(AvatarGesturePlan(0, {"weight_shift_back"}))
    ELSE IF level = "heavy"
    THEN SomePlan(AvatarGesturePlan(0, {"weight_shift_back",
                                        "shoulders_close"}))
    ELSE NonePlan

\* the SANCTUARY_GUARD branch
GuardPlan(state) ==
    IF state = "active"
    THEN SomePlan(AvatarGesturePlan(0, {"shield_up", "shoulders_close",
                                        "weight_shift_back"}))
    ELSE SomePlan(AvatarGesturePlan(0, {"shoulders_release"}))

\* AvatarMicroEngine.plan_for_event
plan_for_event(event) ==
    LET t == event.type
        p == event.payload
    IN IF t = "SURPRISE_SPIKE" THEN SurprisePlan(Get(p, "level"))
       ELSE IF t = "GROUNDING_SHIFT" THEN GroundingPlan(Get(p, "direction"))
       ELSE IF t = "GATE_DRAG" THEN GateDragPlan(Get(p, "level"))
       ELSE IF t = "POCKET_SPAWN"
       THEN SomePlan(AvatarGesturePlan(100, {"head_tilt_down"}))
       ELSE IF t = "POCKET_MERGE"
       THEN SomePlan(AvatarGesturePlan(0, {"sternum_lift",
                                           "shoulders_release"}))
       ELSE IF t = "POCKET_ARCHIVE"
       THEN SomePlan(AvatarGesturePlan(0, {"head_tilt_down",
                                           "shoulders_close"}))
       ELSE IF t = "SANCTUARY_GUARD" THEN GuardPlan(Get(p, "state"))
       ELSE NonePlan

\* isinstance(value, bool): every field but freeze_ms is declared bool
IsBoolField(name) == name # "freeze_ms"

\* an iteration over the sorted field names
FieldsIteratedSorted ==
    <<"freeze_ms", "gaze_flicker", "head_tilt_down", "inhale", "shield_up",
      "shoulders_close", "shoulders_release", "sternum_lift",
      "weight_shift_back">>

\* vars(plan).items(): the fields in declaration order
FieldsIterated == PlanFields

\* separator.join(tokens)
RECURSIVE Join(_, _)
Join(tokens, separator) ==
    IF tokens = <<>> THEN ""
    ELSE IF Len(tokens) = 1 THEN tokens[1]
    ELSE tokens[1] \o separator \o Join(Tail(tokens), separator)

\* the list `active` of to_debug_string, before it is joined
ActiveTokens(plan) ==
    LET IsActive(name) == IsBoolField(name) /\ plan[name]
        active == SelectSeq(FieldsIterated, IsActive)
    IN IF plan.freeze_ms # 0
       THEN Append(active, "freeze=" \o ToString(plan.freeze_ms) \o "ms")
       ELSE active

\* AvatarMicroEngine.to_debug_string
to_debug_string(plan) == Join(ActiveTokens(plan), ", ")

\* Events handed to the engine: every kind, its documented sub-cases, a
\* value outside them and a payload without the sub-case field, at two
\* timestamps, in two contexts and with two values of another field.
GesturePayloads ==
    [SURPRISE_SPIKE |->
        {[epsilon |-> e, prev_epsilon |-> 0, level |-> l] :
            e \in {1, 2},
            l \in {"curious", "tense", "destabilized", "none", "unlisted"}}
        \cup {[epsilon |-> 1, prev_epsilon |-> 0]},
     GROUNDING_SHIFT |->
        {[prev_safety |-> 1, new_safety |-> 0, prev_regulation |-> 0,
          new_regulation |-> 0, delta_safety |-> 0 - 1,
          delta_regulation |-> 0, direction |-> d] :
            d \in {"up", "down", "unlisted"}}
        \cup {[delta_safety |-> 1, delta_regulation |-> 0]},
     GATE_DRAG |->
        {[gate_id |-> "truth_vs_keeping_you", cost |-> c,
          energy_class |-> "macro", level |-> l] :
            c \in {1, 2}, l \in {"light", "moderate", "heavy", "unlisted"}}
        \cup {[gate_id |-> "truth_vs_keeping_you", cost |-> 1]},
     POCKET_SPAWN |->
        {[room_id |-> "room:truth_tension", reason |-> "ethical_conflict",
          depth |-> 1]},
     POCKET_MERGE |->
        {[room_id |-> "room:truth_tension", delta_safety |-> 1,
          delta_consent |-> 1, delta_regulation |-> 0]},
     POCKET_ARCHIVE |->
        {[room_id |-> "room:truth_tension", reason |-> "ethical_conflict"]},
     SANCTUARY_GUARD |->
        {[state |-> st] : st \in {"active", "released", "unlisted"}}
        \cup {[reason |-> "ethical_conflict"]}]

GestureEvents ==
    UNION {{RelationalEvent(type, ts, ctx_id, payload) :
               ts \in {0, 1}, ctx_id \in ContextIds,
               payload \in GesturePayloads[type]} :
           type \in RelationalEventType}

\* Plans handed to to_debug_string: every combination of the flags, with and
\* without a freeze.
GesturePlans ==
    {AvatarGesturePlan(freeze_ms, flags) :
        freeze_ms \in {0, 80}, flags \in SUBSET (PlanFieldSet \ {"freeze_ms"})}

\* engine.plan_for_event(event)
PlanForEvent(event) ==
    /\ last' = [op |-> "plan_for_event", event |-> event,
                result |-> plan_for_event(event)]
    /\ published' = <<>>
    /\ calls' = <<>>
    /\ error' = "none"
    /\ UNCHANGED <<subscribers, next_token, thresholds, now, issued, removed,
                   ledger>>

\* engine.to_debug_string(plan)
ToDebugString(plan) ==
    /\ last' = [op |-> "to_debug_string", plan |-> plan,
                active |-> ActiveTokens(plan),
                result |-> to_debug_string(plan)]
    /\ published' = <<>>
    /\ calls' = <<>>
    /\ error' = "none"
    /\ UNCHANGED <<subscribers, next_token, thresholds, now, issued, removed,
                   ledger>>

GestureNext ==
    \/ \E event \in GestureEvents : PlanForEvent(event)
    \/ \E plan \in GesturePlans : ToDebugString(plan)

GestureSpec == LoadInit /\ [][GestureNext]_vars

----------------------------------------------------------------------------
\* Properties of the event bus (checked under Spec)

TokensOf(cs) == [j \in DOMAIN cs |-> cs[j].token]

MatchingTokens(subs, event) ==
    {subs[i].token : i \in {k \in DOMAIN subs : Allowed(subs[k], event)}}

Min(S) == CHOOSE x \in S : \A y \in S : x <= y

RECURSIVE AscendingSeq(_)
AscendingSeq(S) ==
    IF S = {} THEN <<>> ELSE <<Min(S)>> \o AscendingSeq(S \ {Min(S)})

\* The event_types argument the subscription under a token was created with.
ArgOf(token) ==
    issued[CHOOSE i \in DOMAIN issued : issued[i].token = token].event_types

\* C1: a publish call invokes every matching callback registered at the time
\* of the call, whichever of them raise.
C1_FaultIsolated ==
    [][last'.op = "publish" =>
         \A i \in DOMAIN subscribers :
            Allowed(subscribers[i], last'.event) =>
               \E j \in DOMAIN calls' :
                  calls'[j].token = subscribers[i].token]_vars

\* C2: a publish call invokes every registered matching subscription exactly
\* once, in ascending token order.
C2_PublishOrderedExactlyOnce ==
    [][last'.op = "publish" =>
         TokensOf(calls') =
            AscendingSeq(MatchingTokens(subscribers, last'.event))]_vars

\* C3: a subscription created with a filter supplied (also an empty one) is
\* invoked only for events whose kind is in that filter.
C3_FilterRespected ==
    last.op = "publish" =>
       \A j \in DOMAIN calls :
          LET arg == ArgOf(calls[j].token)
          IN ~arg.isNone =>
                \E k \in DOMAIN arg.list : arg.list[k] = calls[j].event.type

\* C4: every token subscribe returns is strictly greater than every token it
\* returned earlier, also after unsubscribe calls.
C4_TokensIncrease ==
    \A i, j \in DOMAIN issued :
       i < j => issued[i].token < issued[j].token

C4_Witness ==
    /\ last.op = "subscribe"
    /\ Len(issued) >= 2
    /\ removed # {}
    /\ Len(subscribers) < Len(issued)

\* C5: unsubscribe raises nothing; with a token that is not registered (never
\* issued, or already removed) it leaves the registry and the token counter
\* unchanged; after unsubscribe the token is not registered, so a second call
\* with the same token is such a no-op.
C5_UnknownUnsubscribeNoOp ==
    [][last'.op = "unsubscribe" =>
         /\ error' = "none"
         /\ last'.token \notin Keys(subscribers')
         /\ last'.token \notin Keys(subscribers) =>
               /\ subscribers' = subscribers
               /\ next_token' = next_token]_vars

C5_Witness ==
    /\ last.op = "unsubscribe"
    /\ ~last.found
    /\ last.token \in removed
    /\ subscribers # <<>>
    /\ error = "none"

\* C6: no publish call invokes a subscription that was unsubscribed before
\* it, and unsubscribe removes that subscription only: the others keep their
\* callback, filter and relative order.
C6_UnsubscribedNeverInvoked ==
    [][/\ last'.op = "publish" =>
            \A j \in DOMAIN calls' : calls'[j].token \notin removed
       /\ last'.op = "unsubscribe" =>
            LET token == last'.token
                Other(sub) == sub.token # token
            IN subscribers' = SelectSeq(subscribers, Other)]_vars

C6_Witness ==
    /\ last.op = "publish"
    /\ Len(calls) = 2
    /\ \E token \in removed :
          calls[1].token < token /\ token < calls[2].token

----------------------------------------------------------------------------
\* Properties of the decision core (checked under CoreSpec)

ZoneRank(zone) ==
    CASE zone = "none" -> 0
      [] zone = "curious" -> 1
      [] zone = "tense" -> 2
      [] zone = "destabilized" -> 3

C8_OnlyUpward ==
    (last.op = "on_epsilon_update" /\ published # <<>>) =>
       ZoneRank(last.new_band) > ZoneRank(last.prev_band)

\* C9: with bands curious < tense < destabilized the zones on_epsilon_update
\* computes are monotonic in the value, and a value equal to a bound is in
\* the higher zone.
C9_ZoneMonotonic ==
    LET b == thresholds.surprise
    IN (/\ last.op = "on_epsilon_update"
        /\ b.curious < b.tense
        /\ b.tense < b.destabilized) =>
          /\ last.prev_epsilon < last.epsilon =>
                ZoneRank(last.prev_band) <= ZoneRank(last.new_band)
          /\ last.epsilon < last.prev_epsilon =>
                ZoneRank(last.new_band) <= ZoneRank(last.prev_band)
          /\ last.epsilon < b.curious => last.new_band = "none"
          /\ last.epsilon = b.curious => last.new_band = "curious"
          /\ last.epsilon = b.tense => last.new_band = "tense"
          /\ last.epsilon = b.destabilized => last.new_band = "destabilized"

C9_Witness ==
    /\ last.op = "on_epsilon_update"
    /\ last.prev_epsilon < last.epsilon
    /\ last.epsilon = thresholds.surprise.tense
    /\ last.prev_band = "curious"
    /\ last.new_band = "tense"

C11_DirectionBySum ==
    (last.op = "on_grounding_update" /\ published # <<>>) =>
       LET ds == last.new_safety - last.prev_safety
           dr == last.new_regulation - last.prev_regulation
           p == published[1].payload
       IN /\ p.delta_safety + p.delta_regulation = ds + dr
          /\ ds + dr > 0 => p.direction = "up"
          /\ ds + dr <= 0 => p.direction = "down"

C11_Witness ==
    /\ last.op = "on_grounding_update"
    /\ Len(published) = 1
    /\ published[1].payload.delta_safety > 0
    /\ published[1].payload.delta_safety
          + published[1].payload.delta_regulation = 0
    /\ published[1].payload.direction = "down"

\* C12: for every cost, negative and above every band included, on_gate_drag
\* raises nothing of its own (only an invoked callback's exception leaves it)
\* and sets level "light" below the light bound, "moderate" from the light
\* bound to below the moderate bound, "heavy" otherwise.
C12_GateLevelSaturates ==
    last.op = "on_gate_drag" =>
       LET b == thresholds.drag_cost
       IN /\ Len(published) = 1
          /\ error # "none" =>
                \E j \in DOMAIN calls : Raises(calls[j].callback)
          /\ last.cost < b.light => published[1].payload.level = "light"
          /\ (b.light <= last.cost /\ last.cost < b.moderate) =>
                published[1].payload.level = "moderate"
          /\ (b.light <= last.cost /\ b.moderate <= last.cost) =>
                published[1].payload.level = "heavy"

C12_Witness ==
    /\ last.op = "on_gate_drag"
    /\ last.cost < 0
    /\ Len(published) = 1
    /\ published[1].payload.level = "light"
    /\ error = "none"

UnconditionalOps ==
    {"on_gate_drag", "on_pocket_spawn", "on_pocket_merge",
     "on_pocket_archive", "on_sanctuary_guard"}

KindOf(op) ==
    CASE op = "on_gate_drag" -> "GATE_DRAG"
      [] op = "on_pocket_spawn" -> "POCKET_SPAWN"
      [] op = "on_pocket_merge" -> "POCKET_MERGE"
      [] op = "on_pocket_archive" -> "POCKET_ARCHIVE"
      [] op = "on_sanctuary_guard" -> "SANCTUARY_GUARD"

\* C13: every call of on_gate_drag, on_pocket_spawn, on_pocket_merge,
\* on_pocket_archive and on_sanctuary_guard publishes exactly one event of
\* its kind with the caller's context_id; cost, energy_class and state are
\* in the payload as given, whatever their value.
C13_AlwaysEmits ==
    last.op \in UnconditionalOps =>
       /\ Len(published) = 1
       /\ published[1].type = KindOf(last.op)
       /\ published[1].ctx_id = last.ctx_id
       /\ last.op = "on_gate_drag" =>
             /\ published[1].payload.cost = last.cost
             /\ published[1].payload.energy_class = last.energy_class
       /\ last.op = "on_sanctuary_guard" =>
             published[1].payload.state = last.state

C13_Witness ==
    /\ last.op = "on_sanctuary_guard"
    /\ last.state \notin {"active", "released"}
    /\ Len(published) = 1
    /\ published[1].payload.state = last.state

\* The payload fields of section 6 of the specification, per kind.
RequiredFields(type) ==
    CASE type = "SURPRISE_SPIKE" -> {"epsilon", "prev_epsilon", "level"}
      [] type = "GROUNDING_SHIFT" ->
            {"prev_safety", "new_safety", "prev_regulation",
             "new_regulation", "delta_safety", "delta_regulation",
             "direction"}
      [] type = "GATE_DRAG" -> {"gate_id", "cost", "energy_class", "level"}
      [] type = "POCKET_SPAWN" -> {"room_id", "reason", "depth"}
      [] type = "POCKET_MERGE" ->
            {"room_id", "delta_safety", "delta_consent", "delta_regulation"}
      [] type = "POCKET_ARCHIVE" -> {"room_id", "reason"}
      [] type = "SANCTUARY_GUARD" -> {"state"}

\* C14: every event the core publishes has exactly the payload fields of its
\* kind; a surprise-spike level is curious, tense or destabilized (never
\* "none"), a grounding-shift direction is up or down, a gate-drag level is
\* light, moderate or heavy.
C14_PayloadShape ==
    \A i \in DOMAIN published :
       LET e == published[i]
       IN /\ e.type \in RelationalEventType
          /\ DOMAIN e.payload = RequiredFields(e.type)
          /\ e.type = "SURPRISE_SPIKE" =>
                e.payload.level \in {"curious", "tense", "destabilized"}
          /\ e.type = "GROUNDING_SHIFT" =>
                e.payload.direction \in {"up", "down"}
          /\ e.type = "GATE_DRAG" =>
                e.payload.level \in {"light", "moderate", "heavy"}

C14_Witness ==
    /\ last.op = "on_epsilon_update"
    /\ last.prev_band = "destabilized"
    /\ Len(published) = 1
    /\ published[1].payload.level = "curious"
    /\ calls # <<>>

----------------------------------------------------------------------------
\* Properties of the configuration (checked under LoadSpec)

Ascending(t) ==
    /\ t.surprise.curious < t.surprise.tense
    /\ t.surprise.tense < t.surprise.destabilized
    /\ t.drag_cost.light < t.drag_cost.moderate

\* C15: no core is ever constructed with band lists that are not strictly
\* ascending.
C15_AscendingEnforced == Constructed => Ascending(thresholds)

----------------------------------------------------------------------------
\* Properties of the gesture engine (checked under GestureSpec)

\* The sub-case field of an event, per kind.
SubCase(event) ==
    CASE event.type \in {"SURPRISE_SPIKE", "GATE_DRAG"} ->
            Get(event.payload, "level")
      [] event.type = "GROUNDING_SHIFT" -> Get(event.payload, "direction")
      [] event.type = "SANCTUARY_GUARD" -> Get(event.payload, "state")
      [] OTHER -> PyNone

\* An event whose sub-case value is outside the documented set of its kind.
Undocumented(event) ==
    \/ /\ event.type = "SURPRISE_SPIKE"
       /\ SubCase(event) \notin {"curious", "tense", "destabilized"}
    \/ /\ event.type = "GROUNDING_SHIFT"
       /\ SubCase(event) \notin {"up", "down"}
    \/ /\ event.type = "GATE_DRAG"
       /\ SubCase(event) \notin {"moderate", "heavy"}
    \/ /\ event.type = "SANCTUARY_GUARD"
       /\ SubCase(event) \notin {"active", "released"}

\* C16: plan_for_event raises nothing and returns none for every event whose
\* sub-case value is outside the documented set, a missing field included.
C16_UnmatchedReturnsNone ==
    (last.op = "plan_for_event" /\ Undocumented(last.event)) =>
       (error = "none" /\ last.result.isNone)

\* The plan of a documented (kind, sub-case) pair.
DocumentedPlan(type, sub) ==
    CASE type = "SURPRISE_SPIKE" /\ sub = "curious" ->
            SomePlan(AvatarGesturePlan(80, {"inhale", "gaze_flicker"}))
      [] type = "SURPRISE_SPIKE" /\ sub = "tense" ->
            SomePlan(AvatarGesturePlan(120,
               {"inhale", "gaze_flicker", "shoulders_close",
                "weight_shift_back"}))
      [] type = "SURPRISE_SPIKE" /\ sub = "destabilized" ->
            SomePlan(AvatarGesturePlan(180,
               {"inhale", "gaze_flicker", "shoulders_close",
                "weight_shift_back", "head_tilt_down"}))
      [] type = "GROUNDING_SHIFT" /\ sub = "up" ->
            SomePlan(AvatarGesturePlan(0,
               {"sternum_lift", "shoulders_release"}))
      [] type = "GROUNDING_SHIFT" /\ sub = "down" ->
            SomePlan(AvatarGesturePlan(0,
               {"shoulders_close", "head_tilt_down"}))
      [] type = "GATE_DRAG" /\ sub = "light" -> NonePlan
      [] type = "GATE_DRAG" /\ sub = "moderate" ->
            SomePlan(AvatarGesturePlan(0, {"weight_shift_back"}))
      [] type = "GATE_DRAG" /\ sub = "heavy" ->
            SomePlan(AvatarGesturePlan(0,
               {"weight_shift_back", "shoulders_close"}))
      [] type = "POCKET_SPAWN" ->
            SomePlan(AvatarGesturePlan(100, {"head_tilt_down"}))
      [] type = "POCKET_MERGE" ->
            SomePlan(AvatarGesturePlan(0,
               {"sternum_lift", "shoulders_release"}))
      [] type = "POCKET_ARCHIVE" ->
            SomePlan(AvatarGesturePlan(0,
               {"head_tilt_down", "shoulders_close"}))
      [] type = "SANCTUARY_GUARD" /\ sub = "active" ->
            SomePlan(AvatarGesturePlan(0,
               {"shield_up", "shoulders_close", "weight_shift_back"}))
      [] type = "SANCTUARY_GUARD" /\ sub = "released" ->
            SomePlan(AvatarGesturePlan(0, {"shoulders_release"}))

Documented(event) ==
    \/ event.type \in {"POCKET_SPAWN", "POCKET_MERGE", "POCKET_ARCHIVE"}
    \/ /\ event.type = "SURPRISE_SPIKE"
       /\ SubCase(event) \in {"curious", "tense", "destabilized"}
    \/ /\ event.type = "GROUNDING_SHIFT"
       /\ SubCase(event) \in {"up", "down"}
    \/ /\ event.type = "GATE_DRAG"
       /\ SubCase(event) \in {"light", "moderate", "heavy"}
    \/ /\ event.type = "SANCTUARY_GUARD"
       /\ SubCase(event) \in {"active", "released"}

\* C17: for every documented (kind, sub-case) pair plan_for_event returns
\* the one plan of that pair, whatever the timestamp, the context and the
\* other payload fields; gate-drag level "light" returns none.
C17_FixedPlans ==
    (last.op = "plan_for_event" /\ Documented(last.event)) =>
       last.result = DocumentedPlan(last.event.type, SubCase(last.event))

C17_Witness ==
    /\ last.op = "plan_for_event"
    /\ last.event.type = "SURPRISE_SPIKE"
    /\ last.event.timestamp = 1
    /\ last.event.ctx_id = "other_session"
    /\ last.event.payload.epsilon = 2
    /\ SubCase(last.event) = "destabilized"
    /\ ~last.result.isNone
    /\ last.result.plan.freeze_ms = 180
    /\ last.result.plan.head_tilt_down

\* The flags in the order the record declares them.
DeclaredFlags ==
    <<"inhale", "gaze_flicker", "sternum_lift", "shoulders_release",
      "shoulders_close", "weight_shift_back", "head_tilt_down", "shield_up">>

\* C18: to_debug_string lists exactly the flags that are true, in
\* declaration order, followed last by "freeze=<ms>ms" exactly when the
\* freeze duration is nonzero, the tokens separated by ", ".
C18_DebugString ==
    last.op = "to_debug_string" =>
       LET plan == last.plan
           IsSet(name) == plan[name]
           flags == SelectSeq(DeclaredFlags, IsSet)
           n == Len(last.active)
       IN /\ IF plan.freeze_ms = 0
             THEN last.active = flags
             ELSE /\ n = Len(flags) + 1
                  /\ SubSeq(last.active, 1, n - 1) = flags
                  /\ last.active[n] =
                        "freeze=" \o ToString(plan.freeze_ms) \o "ms"
          /\ n = 0 => last.result = ""
          /\ n = 1 => last.result = last.active[1]
          /\ n = 2 =>
                last.result = last.active[1] \o ", " \o last.active[2]
          /\ plan = AvatarGesturePlan(80, {"inhale", "gaze_flicker"}) =>
                last.result = "inhale, gaze_flicker, freeze=80ms"
          /\ plan = AvatarGesturePlan(0, {"shield_up", "shoulders_close",
                                          "weight_shift_back"}) =>
                last.result = "shoulders_close, weight_shift_back, shield_up"

C18_Witness ==
    /\ last.op = "to_debug_string"
    /\ last.plan.shield_up
    /\ last.plan.inhale
    /\ last.plan.freeze_ms = 80
    /\ Len(last.active) = 3
    /\ last.result = "inhale, shield_up, freeze=80ms"

----------------------------------------------------------------------------
\* Properties of the event object (checked under ChannelSpec)

IsLedgerCall(c) == c.callback = "ledger"

\* C19: within one publish call every subscriber receives the event as the
\* publisher constructed it, whatever the subscribers invoked before it did
\* with the event, and the ledger entries appended during the call still
\* hold what the ledger handler recorded.
C19_EventNeverMutated ==
    last.op = "publish" =>
       /\ \A j \in DOMAIN calls : calls[j].event = published[1]
       /\ LET recorded == SelectSeq(calls, IsLedgerCall)
              off == Len(ledger) - Len(recorded)
          IN \A k \in DOMAIN recorded :
                ledger[off + k] = LedgerEntry(recorded[k].event)

----------------------------------------------------------------------------
\* Properties of the core's state (checked under CoreSpec)

CoreOps == UnconditionalOps \cup {"on_epsilon_update", "on_grounding_update"}

\* The level published by the last call, "" if it published nothing.
PublishedLevel(events) ==
    IF events = <<>> THEN "" ELSE events[1].payload.level

\* C20: no on_* call changes the thresholds or the bus the core holds, and
\* an on_epsilon_update call with the same (previous_value, new_value) pair
\* as the on_epsilon_update call before it publishes the same thing (nothing,
\* or the same level), whatever was called earlier, whenever, and for
\* whichever context.
C20_NoMemory ==
    [][/\ (last' # last /\ last'.op \in CoreOps) =>
             /\ thresholds' = thresholds
             /\ subscribers' = subscribers
             /\ next_token' = next_token
       /\ (/\ last.op = "on_epsilon_update"
           /\ last'.op = "on_epsilon_update"
           /\ last'.epsilon = last.epsilon
           /\ last'.prev_epsilon = last.prev_epsilon) =>
             /\ Len(published') = Len(published)
             /\ PublishedLevel(published') = PublishedLevel(published)]_vars

C20_Witness ==
    /\ last.op = "on_epsilon_update"
    /\ last.ctx_id = "other_session"
    /\ last.epsilon = 2
    /\ last.prev_epsilon = 0
    /\ now = 1
    /\ Len(subscribers) = 1
    /\ Len(published) = 1
    /\ published[1].timestamp = 1
    /\ published[1].payload.level = band(thresholds.surprise, 2)

----------------------------------------------------------------------------
\* Properties of re-entrant callbacks (checked under ReentrantSpec)

\* The positions of calls at which subscription token received event.
Deliveries(cs, token, event) ==
    {j \in DOMAIN cs : cs[j].token = token /\ cs[j].event = event}

\* C21: a publish call whose callbacks call subscribe or unsubscribe on the
\* bus returns without an exception and has delivered the event exactly once
\* to every matching subscription that was registered when it started and
\* is still registered when it ends.
C21_ReentrantPublishCompletes ==
    [][last'.op = "publish" =>
          /\ error' = "none"
          /\ \A k \in DOMAIN subscribers :
                (/\ Allowed(subscribers[k], last'.event)
                 /\ subscribers[k].token \in Keys(subscribers')) =>
                   Cardinality(Deliveries(calls', subscribers[k].token,
                                          last'.event)) = 1]_vars

\* The position of a publish call among the publish calls started.
StartedAt(event) ==
    Min({k \in DOMAIN published : published[k] = event})

\* C22: every subscriber receives the events in the order in which their
\* publish calls were started, a publish call made by a callback during a
\* fan-out included.
C22_DeliveredInStartOrder ==
    last.op = "publish" =>
       \A i \in DOMAIN calls, j \in DOMAIN calls :
          (i < j /\ calls[i].token = calls[j].token) =>
             StartedAt(calls[i].event) <= StartedAt(calls[j].event)

====
